---- MODULE Spec2Model ----
(***************************************************************************)
(* Model of aiida/orm/data/array/bands.py: the BandsData node (set_bands,  *)
(* get_bands and the validation behind them) and the find_bandgap routine; *)
(* and of aiida/djsite/db/testbase.py: the class fixture of AiidaTestCase. *)
(*                                                                         *)
(* Numbers.  Band energies and the Fermi energy are integers.  Occupations *)
(* are fixed-point numbers: an element value v of an occupations array     *)
(* stands for v / OccDenom, so that nint() and round() really round.       *)
(* Python is Python 2 here: "/" on two ints is floor division.             *)
(***************************************************************************)
EXTENDS Integers, Sequences, FiniteSets, TLC

VARIABLES
    kpoints,    \* the k-points of the node: [set, n]
    arrays,     \* the node's named arrays (ArrayData): a function name -> array
    attrs,      \* the node's attributes: a function name -> value
    pc,         \* where the caller is: "new", "set", "read" in the life of a
                \* node; "call", "done" around one call of find_bandgap
    args,       \* the arguments of the calls made so far
    result,     \* what the last call returned or raised
    db,         \* the test database: the rows of each table
    fixture     \* where a test class is: "new", "tests", the statement
                \* tearDownClass is at, "done"

vars == <<kpoints, arrays, attrs, pc, args, result, db, fixture>>

----------------------------------------------------------------------------
(* Bounds of the model *)

MaxK == 2
MaxB == 2
MaxCells == 4
MaxE == 2
MaxNe == 5
OccDenom == 2

\* the database before any test class has run
EmptyDb ==
    [workflows |-> {}, groups |-> {}, links |-> {}, nodes |-> {},
     user |-> FALSE, computers |-> {}]

NSpins == 2

----------------------------------------------------------------------------
(* Python values *)

\* an optional number: None, or a number
None == [given |-> FALSE, v |-> 0]
Some(x) == [given |-> TRUE, v |-> x]

\* truth value of an optional number: None and 0 are false
Truthy(a) == a.given /\ a.v # 0

\* outcomes of a call
Return(val) == [kind |-> "return", exc |-> "", msg |-> "", value |-> val]
Raise(e, m) == [kind |-> "raise", exc |-> e, msg |-> m, value |-> <<>>]
NoResult == [kind |-> "none", exc |-> "", msg |-> "", value |-> <<>>]

\* s[i] with Python's index rule: -len <= i < len, negative counts from the end
PyInRange(s, i) == -Len(s) <= i /\ i < Len(s)
PyIndex(s, i) == IF i >= 0 THEN s[i + 1] ELSE s[Len(s) + i + 1]

RECURSIVE SeqSum(_)
SeqSum(s) == IF s = <<>> THEN 0 ELSE Head(s) + SeqSum(Tail(s))

RECURSIVE SeqProd(_)
SeqProd(s) == IF s = <<>> THEN 1 ELSE Head(s) * SeqProd(Tail(s))

SeqMax(s) == CHOOSE x \in {s[i] : i \in DOMAIN s} : \A j \in DOMAIN s : s[j] <= x
SeqMin(s) == CHOOSE x \in {s[i] : i \in DOMAIN s} : \A j \in DOMAIN s : x <= s[j]
Min2(a, b) == IF a <= b THEN a ELSE b

----------------------------------------------------------------------------
(* numpy arrays: a shape and the elements in row-major order *)

Float(x) == [t |-> "float", v |-> x]
Array(shape, data) == [shape |-> shape, data |-> data]
NDim(a) == Len(a.shape)

\* a 2-D array as the sequence of its rows (one row of numbers per k-point)
Rows(a) ==
    LET B == a.shape[2]
    IN  [k \in 1..a.shape[1] |-> [b \in 1..B |-> a.data[(k - 1) * B + b].v]]

\* numpy.concatenate([_ for _ in a], axis=1) of a 3-D array: the spin
\* channels put side by side, per k-point
Concatenate(a) ==
    LET K == a.shape[2]
        B == a.shape[3]
    IN  [k \in 1..K |->
            [j \in 1..(a.shape[1] * B) |->
                a.data[((((j - 1) \div B) * K) + (k - 1)) * B + ((j - 1) % B) + 1].v]]

JoinSpins(a) == IF NDim(a) = 3 THEN Concatenate(a) ELSE Rows(a)

\* sorted(pairs, key=lambda x: x[0]): stable, by the first component
RECURSIVE InsertPair(_, _)
InsertPair(s, p) ==
    IF s = <<>> THEN <<p>>
    ELSE IF p[1] < Head(s)[1] THEN <<p>> \o s
    ELSE <<Head(s)>> \o InsertPair(Tail(s), p)

RECURSIVE SortedPairs(_)
SortedPairs(s) ==
    IF s = <<>> THEN <<>>
    ELSE InsertPair(SortedPairs(SubSeq(s, 1, Len(s) - 1)), s[Len(s)])

\* numpy.sort of one row
SortRow(r) ==
    LET p == SortedPairs([j \in DOMAIN r |-> <<r[j], 0>>])
    IN  [j \in DOMAIN p |-> p[j][1]]

\* numpy.sort(bands) / bands.sort(): every row sorted (last axis)
SortBands(bands) == [k \in DOMAIN bands |-> SortRow(bands[k])]

\* zip(x, y): as long as the shorter one
Zip(x, y) == [j \in 1..Min2(Len(x), Len(y)) |-> <<x[j], y[j]>>]

----------------------------------------------------------------------------
(* ArrayData / BandsData accessors *)

\* ArrayData.get_array: KeyError when no array of that name is stored
get_array(arrs, name) ==
    IF name \in DOMAIN arrs THEN Return(arrs[name])
    ELSE Raise("KeyError", "Array not found")

\* BandsData.array_labels
array_labels(at) ==
    IF "array_labels" \in DOMAIN at
    THEN [given |-> TRUE, v |-> at["array_labels"]]
    ELSE [given |-> FALSE, v |-> <<>>]

\* BandsData.get_bands
get_bands(arrs, at, also_occupations, also_labels) ==
    LET b == get_array(arrs, "bands")
        o == get_array(arrs, "occupations")
    IN  IF b.kind = "raise"
        THEN Raise("AttributeError", "No stored bands has been found")
        ELSE IF also_occupations /\ o.kind = "raise"
        THEN Raise("AttributeError", "No occupations were set")
        ELSE LET to_return ==
                    <<b.value>>
                    \o (IF also_occupations THEN <<o.value>> ELSE <<>>)
                    \o (IF also_labels THEN <<array_labels(at)>> ELSE <<>>)
             IN  IF Len(to_return) = 1 THEN Return(b.value)
                 ELSE Return(to_return)

----------------------------------------------------------------------------
(* find_bandgap *)

\* nint(num) of the occupation h / OccDenom: int() truncates towards zero
nint(h) ==
    IF h > 0 THEN (2 * h + OccDenom) \div (2 * OccDenom)
    ELSE -((OccDenom - 2 * h) \div (2 * OccDenom))

\* int(round(total / denom)) of Python 2: halves round away from zero
PyRound(total, denom) ==
    IF total >= 0 THEN (2 * total + denom) \div (2 * denom)
    ELSE -((denom - 2 * total) \div (2 * denom))

\* the (is_insulator, gap) tuples find_bandgap returns
Metal == Return(<<FALSE, None>>)
SemiMetal == Return(<<FALSE, Some(0)>>)
Insulator(gap) == Return(<<TRUE, Some(gap)>>)

NeedMoreBands == "need more bands than n_band=number_electrons"

\* a variant of ClassifyGap that forgets the gap == 0 case
ClassifyGapNoSemimetal(homo, lumo, number_electrons, ndim) ==
    IF number_electrons % 2 = 1 /\ ndim = 2 THEN Metal
    ELSE LET gap == SeqMin(lumo) - SeqMax(homo)
         IN  IF gap < 0 THEN Metal ELSE Insulator(gap)

\* lines 134-146: the odd-electron shortcut, then the sign of the gap
ClassifyGap(homo, lumo, number_electrons, ndim) ==
    IF number_electrons % 2 = 1 /\ ndim = 2 THEN Metal
    ELSE LET gap == SeqMin(lumo) - SeqMax(homo)
         IN  IF gap = 0 THEN SemiMetal
             ELSE IF gap < 0 THEN Metal
             ELSE Insulator(gap)

\* lines 86-116: the electron count and the homo/lumo read off the occupations
FromOccupations(bands, stored_occupations, ndim) ==
    LET num_kpoints == Len(bands)
        occupations == JoinSpins(stored_occupations)
        rows == Zip(bands, occupations)
        sorted == [k \in DOMAIN rows |-> SortedPairs(Zip(rows[k][1], rows[k][2]))]
        sbands == [k \in DOMAIN sorted |-> [j \in DOMAIN sorted[k] |-> sorted[k][j][1]]]
        soccs == [k \in DOMAIN sorted |-> [j \in DOMAIN sorted[k] |-> sorted[k][j][2]]]
        number_electrons ==
            PyRound(SeqSum([k \in DOMAIN soccs |-> SeqSum(soccs[k])]),
                    OccDenom * num_kpoints)
        occupied(k) == {j \in DOMAIN soccs[k] : nint(soccs[k][j]) > 0}
        \* 0-based index of the last occupied band of k-point k
        homo_index(k) == (CHOOSE j \in occupied(k) : \A i \in occupied(k) : i <= j) - 1
    IN  IF \E k \in DOMAIN soccs : occupied(k) = {}
        THEN Raise("IndexError", "index -1 is out of bounds")
        ELSE IF Cardinality({homo_index(k) : k \in DOMAIN soccs}) > 1
        THEN Metal
        ELSE IF \E k \in DOMAIN sbands : ~PyInRange(sbands[k], homo_index(k) + 1)
        THEN Raise("ValueError", NeedMoreBands)
        ELSE ClassifyGap([k \in DOMAIN sbands |-> PyIndex(sbands[k], homo_index(k))],
                         [k \in DOMAIN sbands |-> PyIndex(sbands[k], homo_index(k) + 1)],
                         number_electrons, ndim)

\* a variant of ElectronsPerBand that ignores the spin polarization
ElectronsPerBandUnpolarized(ndim) == 2

\* line 124: the zero-temperature occupation per band, 1 for a spin-polarized
\* (3-D) calculation, 2 otherwise
ElectronsPerBand(ndim) == 4 - ndim

\* lines 118-132: the homo/lumo taken at the band index the electron count gives
FromNumberElectrons(bands, number_electrons, ndim) ==
    LET sbands == SortBands(bands)
        number_electrons_per_band == ElectronsPerBand(ndim)
        n == number_electrons \div number_electrons_per_band
    IN  IF \E k \in DOMAIN sbands : ~PyInRange(sbands[k], n - 1)
        THEN Raise("IndexError", "index out of bounds")
        ELSE IF \E k \in DOMAIN sbands : ~PyInRange(sbands[k], n)
        THEN Raise("ValueError", NeedMoreBands)
        ELSE ClassifyGap([k \in DOMAIN sbands |-> PyIndex(sbands[k], n - 1)],
                         [k \in DOMAIN sbands |-> PyIndex(sbands[k], n)],
                         number_electrons, ndim)

\* lines 149-184: the analysis on the Fermi energy
FromFermiEnergy(bands, fermi_energy) ==
    LET sbands == SortBands(bands)
        nlevels == Len(sbands[1])
        \* levels = bands.transpose(); max_mins = [(max(i), min(i)) for i in levels]
        level(j) == [k \in DOMAIN sbands |-> sbands[k][j]]
        max_mins == [j \in 1..nlevels |-> <<SeqMax(level(j)), SeqMin(level(j))>>]
        all == {sbands[k][j] : k \in DOMAIN sbands, j \in 1..nlevels}
        below == {max_mins[j][1] : j \in {i \in 1..nlevels : max_mins[i][1] < fermi_energy}}
        above == {max_mins[j][2] : j \in {i \in 1..nlevels : max_mins[i][2] > fermi_energy}}
        homo == CHOOSE x \in below : \A y \in below : y <= x
        lumo == CHOOSE x \in above : \A y \in above : x <= y
    IN  IF \A x \in all : fermi_energy > x
        THEN Raise("ValueError", "The Fermi energy is above all band energies")
        ELSE IF \A x \in all : fermi_energy < x
        THEN Raise("ValueError", "The Fermi energy is below all band energies")
        ELSE IF \E j \in 1..nlevels :
                    max_mins[j][2] < fermi_energy /\ fermi_energy < max_mins[j][1]
        THEN Metal
        ELSE IF /\ \E j \in 1..nlevels : max_mins[j][1] = fermi_energy
                /\ \E j \in 1..nlevels : max_mins[j][2] = fermi_energy
        THEN SemiMetal
        ELSE IF below = {} \/ above = {}
        THEN Raise("ValueError", "max() arg is an empty sequence")
        ELSE IF lumo - homo <= 0
        THEN Raise("Exception", "Something wrong has been implemented")
        ELSE Insulator(lumo - homo)

\* a variant of AnalyseOccupations written "if not fermi_energy"
AnalyseOccupationsIfFalsy(fermi_energy) == ~Truthy(fermi_energy)

\* line 75: "if fermi_energy is None", the analysis on occupations
AnalyseOccupations(fermi_energy) == ~fermi_energy.given

find_bandgap(arrs, at, number_electrons, fermi_energy) ==
    LET got == get_bands(arrs, at, FALSE, FALSE)
        stored_bands == got.value
        bands == JoinSpins(stored_bands)
        gotocc == get_bands(arrs, at, TRUE, FALSE)
    IN  IF Truthy(fermi_energy) /\ Truthy(number_electrons)
        THEN Raise("ValueError", "Specify either the number of electrons or the Fermi energy")
        ELSE IF got.kind = "raise"
        THEN (IF got.exc = "KeyError"
              THEN Raise("KeyError", "Cannot do much of a band analysis without bands")
              ELSE got)
        ELSE IF AnalyseOccupations(fermi_energy)
        THEN (IF ~number_electrons.given
              THEN (IF gotocc.kind = "raise"
                    THEN (IF gotocc.exc = "KeyError"
                          THEN Raise("KeyError", "Cannot determine metallicity")
                          ELSE gotocc)
                    ELSE FromOccupations(bands, gotocc.value[2], NDim(stored_bands)))
              ELSE FromNumberElectrons(bands, number_electrons.v, NDim(stored_bands)))
        ELSE FromFermiEnergy(bands, fermi_energy.v)

----------------------------------------------------------------------------
(* Inputs of find_bandgap: nodes as set_bands leaves them, and arguments *)

NoArrays == [n \in {} |-> 0]
NoAttrs == [n \in {} |-> 0]
SetItem(f, name, val) == [n \in DOMAIN f \cup {name} |-> IF n = name THEN val ELSE f[n]]

Shapes2D == {<<k, b>> : k \in 1..MaxK, b \in 1..MaxB}
Shapes3D == {<<NSpins, k, b>> : k \in 1..MaxK, b \in 1..MaxB}
BandShapes == {s \in Shapes2D \cup Shapes3D : SeqProd(s) <= MaxCells}

\* the float arrays of a shape with elements among vals
FloatArrays(shape, vals) ==
    {Array(shape, [i \in 1..SeqProd(shape) |-> Float(d[i])]) :
        d \in [1..SeqProd(shape) -> vals]}

Energies == 0..MaxE
\* occupations 0, 1/OccDenom, 1 and 2
OccVals == {0, 1, OccDenom, 2 * OccDenom}
ElectronArgs == {None} \cup {Some(n) : n \in 0..MaxNe}
FermiArgs == {None} \cup {Some(f) : f \in -1..(MaxE + 1)}

GapArgs(ne, fe) == [op |-> "find_bandgap", number_electrons |-> ne, fermi_energy |-> fe]

\* the number of k-points of a bands array of this shape
KOfShape(shape) == IF Len(shape) = 2 THEN shape[1] ELSE shape[2]

\* A node with bands (and maybe occupations of the same shape), or a node
\* with no array at all, and the arguments of one call.  Occupations are
\* read only when neither argument is given (line 79): with an argument
\* given they are drawn for the small shapes only.
InitGap ==
    /\ pc = "call"
    /\ result = NoResult
    /\ db = EmptyDb
    /\ fixture = "new"
    /\ \E ne \in ElectronArgs, fe \in FermiArgs :
        /\ args = GapArgs(ne, fe)
        /\ \/ /\ kpoints = [set |-> FALSE, n |-> 0]
              /\ arrays = NoArrays
              /\ attrs = NoAttrs
           \/ \E shape \in BandShapes :
                /\ kpoints = [set |-> TRUE, n |-> KOfShape(shape)]
                /\ attrs = SetItem(NoAttrs, "units", "None")
                /\ \E b \in FloatArrays(shape, Energies) :
                    \/ arrays = SetItem(NoArrays, "bands", b)
                    \/ /\ (ne.given \/ fe.given) => 2 * SeqProd(shape) <= MaxCells
                       /\ \E o \in FloatArrays(shape, OccVals) :
                            arrays = SetItem(SetItem(NoArrays, "bands", b), "occupations", o)

\* one call of find_bandgap(bandsdata, number_electrons, fermi_energy)
FindBandgap ==
    /\ pc = "call"
    /\ args.op = "find_bandgap"
    /\ result' = find_bandgap(arrays, attrs, args.number_electrons, args.fermi_energy)
    /\ pc' = "done"
    /\ UNCHANGED <<kpoints, arrays, attrs, args, db, fixture>>

NextGap == FindBandgap

SpecGap == InitGap /\ [][NextGap]_vars

----------------------------------------------------------------------------
(* numpy.array(): element types and coercion *)

PyInt(x) == [t |-> "int", v |-> x]
PyNone == [t |-> "None", v |-> 0]
\* a string that is not the text of a number, such as 'x'
Str == [t |-> "str", v |-> 0]
\* the text of the number x, what a number becomes in a string array
NumStr(x) == [t |-> "numstr", v |-> x]

ElemTypes(a) == {a.data[i].t : i \in DOMAIN a.data}

\* the element type numpy gives the array of these elements
dtype(a) ==
    IF "None" \in ElemTypes(a) THEN "object"
    ELSE IF ElemTypes(a) \cap {"str", "numstr"} # {} THEN "string"
    ELSE IF "float" \in ElemTypes(a) THEN "float64"
    ELSE "int64"

\* numpy.array(x): the elements coerced to the common element type
numpy_array(a) ==
    LET coerce(e) ==
            CASE dtype(a) = "float64" -> Float(e.v)
              [] dtype(a) = "string" /\ e.t \in {"float", "int"} -> NumStr(e.v)
              [] OTHER -> e
    IN  Array(a.shape, [i \in DOMAIN a.data |-> coerce(a.data[i])])

\* float(_) succeeds: on numbers and on the text of a number
FloatConvertible(e) == e.t \in {"float", "int", "numstr"}

\* [float(_) for _ in x.flatten() if _ is not None] raises no error
AllFloatOrNone(a) == \A i \in DOMAIN a.data : a.data[i].t = "None" \/ FloatConvertible(a.data[i])

----------------------------------------------------------------------------
(* BandsData._validate_bands_occupations and set_bands *)

\* an optional array argument
NoArray == [given |-> FALSE, v |-> Array(<<>>, <<>>)]
SomeArray(a) == [given |-> TRUE, v |-> a]

\* a labels argument: None, a string, a list (or tuple), or another object
Label(x) == [t |-> "str", s |-> x]
\* a unicode string with a character outside ASCII: a basestring of Python 2
\* that str() cannot convert
NonAsciiLabel == [t |-> "unicode", s |-> "e-acute"]
NotALabel == [t |-> "int", s |-> "5"]
NoLabels == [kind |-> "None", items |-> <<>>]
OneLabel(x) == [kind |-> "str", items |-> <<Label(x)>>]
LabelList(l) == [kind |-> "list", items |-> l]
OtherLabels == [kind |-> "other", items |-> <<>>]

\* KpointsData.get_kpoints: AttributeError before the k-points are set
get_kpoints(kp) ==
    IF kp.set THEN Return(kp.n) ELSE Raise("AttributeError", "kpoints not set")

\* line 240: the dimensions a bands array may have
ValidNDim(nd) == nd \in {2, 3}

\* a variant of num_kpoints_from_bands that always reads axis 0
num_kpoints_first_axis(shape) == shape[1]

\* line 249: the k-point axis is axis 0 of a 2-D array, axis 1 of a 3-D one
num_kpoints_from_bands(shape) == IF Len(shape) = 2 THEN shape[1] ELSE shape[2]

\* a variant of SameShape that compares the numbers of elements only
SameSize(the_occupations, the_bands) ==
    Len(the_occupations.data) = Len(the_bands.data)

\* line 255: occupations and bands have the same shape
SameShape(the_occupations, the_bands) == the_occupations.shape = the_bands.shape

\* lines 259-268: the arrays whose elements are checked, in order
list_of_arrays_to_be_checked(the_bands, occupations) ==
    (IF occupations.given /\ dtype(the_bands) # "float64"
     THEN <<<<numpy_array(occupations.v), "occupations">>>> ELSE <<>>)
    \o (IF dtype(the_bands) # "float64" THEN <<<<the_bands, "bands">>>> ELSE <<>>)

OnlyFloatOrNone(msg) == "The " \o msg \o " array can only contain float or None values"

\* isinstance(_, basestring): a str or a unicode of Python 2
IsBaseString(item) == item.t \in {"str", "unicode"}

\* lines 279, 281: labels is a string, or a list/tuple of strings
LabelsRecognized(labels) ==
    \/ labels.kind = "str"
    \/ /\ labels.kind = "list"
       /\ \A i \in DOMAIN labels.items : IsBaseString(labels.items[i])

\* lines 277-292: the labels as a list of str, or an error
validate_labels(the_bands, labels) ==
    LET the_labels == [i \in DOMAIN labels.items |-> labels.items[i].s]
    IN  IF labels.kind = "None" THEN Return([given |-> FALSE, v |-> <<>>])
        ELSE IF ~LabelsRecognized(labels)
        THEN Raise("ValidationError", "Band labels have an unrecognized type")
        ELSE IF \E i \in DOMAIN labels.items : labels.items[i].t = "unicode"
        THEN Raise("UnicodeEncodeError", "'ascii' codec can't encode character")
        ELSE IF \/ NDim(the_bands) = 2 /\ Len(the_labels) # 1
                \/ NDim(the_bands) = 3 /\ Len(the_labels) # the_bands.shape[1]
        THEN Raise("ValidationError", "More array labels than the number of arrays")
        ELSE Return([given |-> TRUE, v |-> the_labels])

\* returns (the_bands, the_occupations, the_labels), or raises
validate_bands_occupations(kp, bands, occupations, labels) ==
    LET the_bands == numpy_array(bands)
        the_occupations ==
            IF occupations.given THEN SomeArray(numpy_array(occupations.v)) ELSE NoArray
        checked == list_of_arrays_to_be_checked(the_bands, occupations)
        bad == {i \in DOMAIN checked : ~AllFloatOrNone(checked[i][1])}
        first_bad == CHOOSE i \in bad : \A j \in bad : i <= j
        lab == validate_labels(the_bands, labels)
    IN  IF get_kpoints(kp).kind = "raise"
        THEN Raise("AttributeError", "Must first set the kpoints, then the bands")
        ELSE IF ~ValidNDim(NDim(the_bands))
        THEN Raise("ValueError", "Bands must be an array of dimension 2 or of dimension 3")
        ELSE IF num_kpoints_from_bands(the_bands.shape) # get_kpoints(kp).value
        THEN Raise("ValueError", "There must be energy values for every kpoint")
        ELSE IF occupations.given /\ ~SameShape(the_occupations.v, the_bands)
        THEN Raise("ValueError", "Shape of occupations different from shape of bands")
        ELSE IF bad # {}
        THEN Raise("ValueError", OnlyFloatOrNone(checked[first_bad][2]))
        ELSE IF lab.kind = "raise"
        THEN lab
        ELSE Return(<<the_bands, the_occupations, lab.value>>)

\* the units setter: str(value)
UnitsStr(units) == IF units.given THEN units.v ELSE "None"

\* the node's arrays and attributes after set_bands stored what was validated
StoreBands(arrs, at, validated, units) ==
    LET arrs1 == SetItem(arrs, "bands", validated[1])
        at1 == SetItem(at, "units", UnitsStr(units))
        at2 == IF validated[3].given
               THEN SetItem(at1, "array_labels", validated[3].v) ELSE at1
        arrs2 == IF validated[2].given
                 THEN SetItem(arrs1, "occupations", validated[2].v) ELSE arrs1
    IN  <<arrs2, at2>>

----------------------------------------------------------------------------
(* The life of one node: set the k-points, set the bands once, read them *)

MaxLen == 2
MaxNDim == 4
MaxNodeCells == 2

\* the shapes of the arrays passed to set_bands
NodeShapes ==
    {s \in UNION {[1..d -> 1..MaxLen] : d \in 1..MaxNDim} : SeqProd(s) <= MaxNodeCells}

\* what the first element of a passed array may be; the others are 0.0
Elements == {Float(0), PyInt(1), PyNone, Str}

NodeArrays ==
    {Array(s, [i \in 1..SeqProd(s) |-> IF i = 1 THEN e ELSE Float(0)]) :
        s \in NodeShapes, e \in Elements}

OccupationInputs == {NoArray} \cup {SomeArray(a) : a \in NodeArrays}
LabelInputs ==
    {NoLabels, OneLabel("up"), LabelList(<<Label("up"), Label("down")>>),
     LabelList(<<Label("up"), NotALabel>>),
     LabelList(<<NonAsciiLabel, Label("down")>>), OtherLabels}
NoUnits == [given |-> FALSE, v |-> ""]
UnitInputs == {NoUnits, [given |-> TRUE, v |-> "eV"]}

NoCall ==
    [op |-> "none", n |-> 0, bands |-> Array(<<>>, <<>>), occupations |-> NoArray,
     labels |-> NoLabels, units |-> NoUnits,
     also_occupations |-> FALSE, also_labels |-> FALSE]

Init ==
    /\ kpoints = [set |-> FALSE, n |-> 0]
    /\ arrays = NoArrays
    /\ attrs = NoAttrs
    /\ pc = "new"
    /\ args = NoCall
    /\ result = NoResult
    /\ db = EmptyDb
    /\ fixture = "new"

\* KpointsData.set_kpoints with n k-points
SetKpoints ==
    /\ pc = "new"
    /\ ~kpoints.set
    /\ \E n \in 1..MaxLen :
        /\ kpoints' = [set |-> TRUE, n |-> n]
        /\ args' = [NoCall EXCEPT !.op = "set_kpoints", !.n = n]
    /\ result' = Return(<<>>)
    /\ UNCHANGED <<arrays, attrs, pc, db, fixture>>

\* BandsData.set_bands(bands, units, occupations, labels)
SetBands ==
    /\ pc = "new"
    /\ \E b \in NodeArrays, o \in OccupationInputs, l \in LabelInputs, u \in UnitInputs :
        LET validated == validate_bands_occupations(kpoints, b, o, l)
            stored == StoreBands(arrays, attrs, validated.value, u)
        IN  /\ args' = [NoCall EXCEPT !.op = "set_bands", !.bands = b,
                            !.occupations = o, !.labels = l, !.units = u]
            /\ IF validated.kind = "raise"
               THEN /\ result' = validated
                    /\ UNCHANGED <<arrays, attrs>>
               ELSE /\ result' = Return(<<>>)
                    /\ arrays' = stored[1]
                    /\ attrs' = stored[2]
    /\ pc' = "set"
    /\ UNCHANGED <<kpoints, db, fixture>>

\* BandsData.get_bands(also_occupations, also_labels)
GetBands ==
    /\ pc \in {"set", "read"}
    /\ \E ao \in BOOLEAN, al \in BOOLEAN :
        /\ args' = [args EXCEPT !.op = "get_bands",
                        !.also_occupations = ao, !.also_labels = al]
        /\ result' = get_bands(arrays, attrs, ao, al)
    /\ pc' = "read"
    /\ UNCHANGED <<kpoints, arrays, attrs, db, fixture>>

Next == SetKpoints \/ SetBands \/ GetBands

Spec == Init /\ [][Next]_vars

----------------------------------------------------------------------------
(* AiidaTestCase: setUpClass, the tests of a class, tearDownClass *)

MaxNodes == 2
MaxWorkflows == 1
MaxGroups == 1

\* the computers a test class stores: the one of setUpClass and one more
ComputerNames == {"localhost", "remote"}

\* Model.objects.all().delete(): no row of the table is left
DeleteAll(d, table) == [d EXCEPT ![table] = {}]

\* a variant of the user deletion without the try/except: the
\* ObjectDoesNotExist of a missing user ends tearDownClass
delete_user_uncaught(d) ==
    IF d.user THEN [db |-> [d EXCEPT !.user = FALSE], next |-> "td_computers"]
    ELSE [db |-> d, next |-> "error"]

\* lines 62-65: delete the configured user; a missing one is passed over
delete_user(d) ==
    IF d.user THEN [db |-> [d EXCEPT !.user = FALSE], next |-> "td_computers"]
    ELSE [db |-> d, next |-> "td_computers"]

\* the class fixture does not touch the BandsData node of the other actions
NodeUnchanged == UNCHANGED <<kpoints, arrays, attrs, pc, args, result>>

\* setUpClass: create the configured user and store the localhost computer
SetUpClass ==
    /\ fixture \in {"new", "done"}
    /\ db' = [db EXCEPT !.user = TRUE, !.computers = @ \cup {"localhost"}]
    /\ fixture' = "tests"
    /\ NodeUnchanged

\* what the tests of a class do to the database
StoreNode ==
    /\ fixture = "tests"
    /\ \E n \in (1..MaxNodes) \ db.nodes : db' = [db EXCEPT !.nodes = @ \cup {n}]
    /\ UNCHANGED fixture
    /\ NodeUnchanged

StoreLink ==
    /\ fixture = "tests"
    /\ \E i \in db.nodes, o \in db.nodes :
        /\ i # o
        /\ <<i, o>> \notin db.links
        /\ db' = [db EXCEPT !.links = @ \cup {<<i, o>>}]
    /\ UNCHANGED fixture
    /\ NodeUnchanged

StoreWorkflow ==
    /\ fixture = "tests"
    /\ \E w \in (1..MaxWorkflows) \ db.workflows :
        db' = [db EXCEPT !.workflows = @ \cup {w}]
    /\ UNCHANGED fixture
    /\ NodeUnchanged

StoreGroup ==
    /\ fixture = "tests"
    /\ \E g \in (1..MaxGroups) \ db.groups : db' = [db EXCEPT !.groups = @ \cup {g}]
    /\ UNCHANGED fixture
    /\ NodeUnchanged

StoreComputer ==
    /\ fixture = "tests"
    /\ \E c \in ComputerNames \ db.computers :
        db' = [db EXCEPT !.computers = @ \cup {c}]
    /\ UNCHANGED fixture
    /\ NodeUnchanged

\* a test removes the configured user
RemoveUser ==
    /\ fixture = "tests"
    /\ db.user
    /\ db' = [db EXCEPT !.user = FALSE]
    /\ UNCHANGED fixture
    /\ NodeUnchanged

\* tearDownClass, statement by statement
DeleteWorkflows ==
    /\ fixture = "tests"
    /\ db' = DeleteAll(db, "workflows")
    /\ fixture' = "td_groups"
    /\ NodeUnchanged

DeleteGroups ==
    /\ fixture = "td_groups"
    /\ db' = DeleteAll(db, "groups")
    /\ fixture' = "td_links"
    /\ NodeUnchanged

DeleteLinks ==
    /\ fixture = "td_links"
    /\ db' = DeleteAll(db, "links")
    /\ fixture' = "td_nodes"
    /\ NodeUnchanged

DeleteNodes ==
    /\ fixture = "td_nodes"
    /\ db' = DeleteAll(db, "nodes")
    /\ fixture' = "td_user"
    /\ NodeUnchanged

DeleteUser ==
    /\ fixture = "td_user"
    /\ db' = delete_user(db).db
    /\ fixture' = delete_user(db).next
    /\ NodeUnchanged

DeleteComputers ==
    /\ fixture = "td_computers"
    /\ db' = DeleteAll(db, "computers")
    /\ fixture' = "done"
    /\ NodeUnchanged

TearDownClass ==
    \/ DeleteWorkflows \/ DeleteGroups \/ DeleteLinks
    \/ DeleteNodes \/ DeleteUser \/ DeleteComputers

Tests ==
    \/ StoreNode \/ StoreLink \/ StoreWorkflow
    \/ StoreGroup \/ StoreComputer \/ RemoveUser

NextFixture == SetUpClass \/ Tests \/ TearDownClass

SpecFixture == Init /\ [][NextFixture]_vars

----------------------------------------------------------------------------
(* What the claims speak of, stated on the arrays themselves *)

GapCallDone == pc = "done" /\ args.op = "find_bandgap"
HasBands == "bands" \in DOMAIN arrays
HasOccupations == "occupations" \in DOMAIN arrays
BothGiven == args.number_electrons.given /\ args.fermi_energy.given
BothTruthy == Truthy(args.number_electrons) /\ Truthy(args.fermi_energy)

\* the energies of k-point k of an array, over band (and spin) indexes
EnergiesAt(a, k) ==
    IF NDim(a) = 2
    THEN [i \in {<<1, b>> : b \in 1..a.shape[2]} |->
            a.data[(k - 1) * a.shape[2] + i[2]].v]
    ELSE [i \in (1..a.shape[1]) \X (1..a.shape[3]) |->
            a.data[((i[1] - 1) * a.shape[2] + (k - 1)) * a.shape[3] + i[2]].v]

\* the n-th lowest value of a finite family, by counting
NthLowest(f, n) ==
    CHOOSE x \in {f[i] : i \in DOMAIN f} :
        /\ Cardinality({i \in DOMAIN f : f[i] < x}) < n
        /\ Cardinality({i \in DOMAIN f : f[i] <= x}) >= n

KPointsOf(a) == 1..KOfShape(a.shape)
BandsPerKpoint(a) == IF NDim(a) = 2 THEN a.shape[2] ELSE a.shape[1] * a.shape[3]
SetMax(S) == CHOOSE x \in S : \A y \in S : y <= x
SetMin(S) == CHOOSE x \in S : \A y \in S : x <= y

\* level j: the j-th lowest energy of every k-point
LevelMax(a, j) == SetMax({NthLowest(EnergiesAt(a, k), j) : k \in KPointsOf(a)})
LevelMin(a, j) == SetMin({NthLowest(EnergiesAt(a, k), j) : k \in KPointsOf(a)})
AllEnergies(a) == {a.data[i].v : i \in DOMAIN a.data}

\* the sum of all occupations, in units of 1 / OccDenom
OccupationTotal(o) == SeqSum([i \in DOMAIN o.data |-> o.data[i].v])

----------------------------------------------------------------------------
(* Claims on find_bandgap, checked under SpecGap *)

\* C1: whenever find_bandgap returns, the result is (True, gap) with
\* gap > 0, or (False, 0), or (False, None): never True with a gap that is
\* None, zero or negative, never False with a non-zero gap.
C1_ResultForms ==
    (GapCallDone /\ result.kind = "return") =>
        LET is_insulator == result.value[1]
            gap == result.value[2]
        IN  \/ is_insulator /\ gap.given /\ gap.v > 0
            \/ ~is_insulator /\ gap.given /\ gap.v = 0
            \/ ~is_insulator /\ ~gap.given

\* C1 witness: a call returned an insulator with a positive gap
C1_Witness ==
    /\ GapCallDone
    /\ result.kind = "return"
    /\ result.value[1]
    /\ result.value[2].v > 0

\* C2 (as claimed): every call in which both number_electrons and
\* fermi_energy are given raises the "either ... but not both" ValueError,
\* whatever their values.
C2_BothGivenRaises ==
    (GapCallDone /\ HasBands /\ BothGiven) =>
        /\ result.kind = "raise"
        /\ result.exc = "ValueError"
        /\ result.msg = "Specify either the number of electrons or the Fermi energy"

\* C3: with number_electrons given, fermi_energy None, n = number_electrons
\* div p (p = 2 for 2-D bands, 1 for 3-D), 1 <= n < bands per k-point and
\* not (odd count with 2-D bands): gap = min over k of the (n+1)-th lowest
\* energy minus max over k of the n-th lowest; the result is (True, gap) if
\* gap > 0, (False, 0) if gap = 0, (False, None) if gap < 0.
C3_Applies ==
    /\ GapCallDone
    /\ HasBands
    /\ args.number_electrons.given
    /\ ~args.fermi_energy.given
    /\ LET a == arrays["bands"]
           ne == args.number_electrons.v
           n == ne \div (IF NDim(a) = 2 THEN 2 ELSE 1)
       IN  /\ 1 <= n
           /\ n < BandsPerKpoint(a)
           /\ ~(ne % 2 = 1 /\ NDim(a) = 2)

C3_GapFromElectrons ==
    C3_Applies =>
        LET a == arrays["bands"]
            n == args.number_electrons.v \div (IF NDim(a) = 2 THEN 2 ELSE 1)
            gap == LevelMin(a, n + 1) - LevelMax(a, n)
        IN  result = IF gap > 0 THEN Return(<<TRUE, Some(gap)>>)
                     ELSE IF gap = 0 THEN Return(<<FALSE, Some(0)>>)
                     ELSE Return(<<FALSE, None>>)

\* C3 witness: spin-resolved bands over two k-points, found insulating
C3_Witness ==
    /\ C3_Applies
    /\ NDim(arrays["bands"]) = 3
    /\ KOfShape(arrays["bands"].shape) = 2
    /\ result.kind = "return"
    /\ result.value[1]

\* C4 (as claimed): an odd number of electrons with 2-D (not spin polarized)
\* bands always gives (False, None), whether the count is passed as
\* number_electrons or derived from the occupations.
C4_OddCount ==
    /\ HasBands
    /\ NDim(arrays["bands"]) = 2
    /\ ~args.fermi_energy.given
    /\ IF args.number_electrons.given
       THEN args.number_electrons.v % 2 = 1
       ELSE /\ HasOccupations
            /\ PyRound(OccupationTotal(arrays["occupations"]),
                       OccDenom * KOfShape(arrays["bands"].shape)) % 2 = 1

C4_OddIsMetal ==
    (GapCallDone /\ C4_OddCount) => result = Return(<<FALSE, None>>)

\* C5 (as claimed): with fermi_energy F within [lowest, highest] band
\* energy: (False, None) if some level has min < F < max; otherwise
\* (False, 0) if some level's max is F and some level's min is F; otherwise
\* (True, lumo - homo), homo the largest level maximum strictly below F and
\* lumo the smallest level minimum strictly above F.
C5_Applies ==
    /\ GapCallDone
    /\ HasBands
    /\ args.fermi_energy.given
    /\ ~args.number_electrons.given
    /\ SetMin(AllEnergies(arrays["bands"])) <= args.fermi_energy.v
    /\ args.fermi_energy.v <= SetMax(AllEnergies(arrays["bands"]))

C5_FermiClassification ==
    C5_Applies =>
        LET a == arrays["bands"]
            F == args.fermi_energy.v
            levels == 1..BandsPerKpoint(a)
            below == {LevelMax(a, j) : j \in {i \in levels : LevelMax(a, i) < F}}
            above == {LevelMin(a, j) : j \in {i \in levels : LevelMin(a, i) > F}}
        IN  IF \E j \in levels : LevelMin(a, j) < F /\ F < LevelMax(a, j)
            THEN result = Return(<<FALSE, None>>)
            ELSE IF /\ \E j \in levels : LevelMax(a, j) = F
                    /\ \E j \in levels : LevelMin(a, j) = F
            THEN result = Return(<<FALSE, Some(0)>>)
            ELSE /\ below # {}
                 /\ above # {}
                 /\ result = Return(<<TRUE, Some(SetMin(above) - SetMax(below))>>)

\* C6: with fermi_energy strictly above the highest or strictly below the
\* lowest stored band energy, find_bandgap raises ValueError.
C6_Applies ==
    /\ GapCallDone
    /\ HasBands
    /\ args.fermi_energy.given
    /\ \/ args.fermi_energy.v > SetMax(AllEnergies(arrays["bands"]))
       \/ args.fermi_energy.v < SetMin(AllEnergies(arrays["bands"]))

C6_FermiOutOfRange ==
    C6_Applies => (result.kind = "raise" /\ result.exc = "ValueError")

\* C6 witness: a Fermi energy of 0 below bands that start at 1, no electron
\* count given
C6_Witness ==
    /\ C6_Applies
    /\ args.fermi_energy.v = 0
    /\ ~args.number_electrons.given
    /\ result.msg = "The Fermi energy is below all band energies"

\* C7 (as claimed): a node with no stored bands gives the KeyError "Cannot
\* do much of a band analysis without bands"; with neither argument given
\* and no stored occupations, the KeyError "Cannot determine metallicity".
C7_MissingArrayIsKeyError ==
    /\ (GapCallDone /\ ~BothTruthy /\ ~HasBands) =>
            /\ result.kind = "raise"
            /\ result.exc = "KeyError"
            /\ result.msg = "Cannot do much of a band analysis without bands"
    /\ (GapCallDone /\ HasBands /\ ~HasOccupations
            /\ ~args.number_electrons.given /\ ~args.fermi_energy.given) =>
            /\ result.kind = "raise"
            /\ result.exc = "KeyError"
            /\ result.msg = "Cannot determine metallicity"

----------------------------------------------------------------------------
(* Claims on set_bands, checked under Spec *)

SetBandsDone == pc = "set" /\ args.op = "set_bands"
Accepted == result.kind = "return"
RaisedValueError == result.kind = "raise" /\ result.exc = "ValueError"

\* the bands passed are 2-D or 3-D with as many k-points as the node has
BandsShapeFits ==
    LET shape == args.bands.shape
    IN  \/ Len(shape) = 2 /\ kpoints.set /\ shape[1] = kpoints.n
        \/ Len(shape) = 3 /\ kpoints.set /\ shape[2] = kpoints.n

OccupationsShapeDiffers ==
    /\ args.occupations.given
    /\ args.occupations.v.shape # args.bands.shape

\* some element of the array is neither None nor convertible to a float
HasBadElement(a) == \E i \in DOMAIN a.data : a.data[i].t = "str"

\* C8 (as claimed): set_bands accepts a bands array only if it is 2-D or
\* 3-D with its k-point axis as long as the k-points set on the node, and
\* raises ValueError for every other bands array.
C8_BandsShapeAsClaimed ==
    SetBandsDone =>
        /\ Accepted => BandsShapeFits
        /\ ~BandsShapeFits => RaisedValueError

\* C8 (amended): on a node whose k-points have been set, set_bands accepts
\* a bands array only if it is 2-D or 3-D with its k-point axis (axis 0 for
\* 2-D, axis 1 for 3-D) as long as the k-points of the node, and raises
\* ValueError for every other bands array; before the k-points are set it
\* raises AttributeError for every bands array.
C8_BandsShape ==
    SetBandsDone =>
        IF kpoints.set
        THEN /\ Accepted => BandsShapeFits
             /\ ~BandsShapeFits => RaisedValueError
        ELSE result.kind = "raise" /\ result.exc = "AttributeError"

\* C8 witness: a 3-D bands array whose axis 1 is not the number of k-points
\* of the node was refused
C8_Witness ==
    /\ SetBandsDone
    /\ kpoints.set
    /\ Len(args.bands.shape) = 3
    /\ args.bands.shape[1] = kpoints.n
    /\ args.bands.shape[2] # kpoints.n
    /\ RaisedValueError
    /\ result.msg = "There must be energy values for every kpoint"

\* C9 (as claimed): for every occupations array whose shape differs from
\* the shape of bands, set_bands raises ValueError.
C9_OccupationsShapeAsClaimed ==
    (SetBandsDone /\ OccupationsShapeDiffers) => RaisedValueError

\* C9 (amended): on a node whose k-points have been set, for every
\* occupations array whose shape differs from the shape of bands, set_bands
\* raises ValueError and stores nothing.
C9_OccupationsShape ==
    (SetBandsDone /\ kpoints.set /\ OccupationsShapeDiffers) =>
        /\ RaisedValueError
        /\ arrays = NoArrays

\* C9 witness: bands that fit the k-points, occupations of another shape
\* with as many elements, refused for the shape
C9_Witness ==
    /\ SetBandsDone
    /\ BandsShapeFits
    /\ OccupationsShapeDiffers
    /\ Len(args.occupations.v.data) = Len(args.bands.data)
    /\ RaisedValueError
    /\ result.msg = "Shape of occupations different from shape of bands"

\* C10 (as claimed): whenever some element of the bands array or of the
\* occupations array is neither None nor convertible to a float, set_bands
\* raises the ValueError "The ... array can only contain float or None
\* values", whatever the element type of the other array.  Stated for
\* arrays whose shapes pass the earlier checks.
C10_Applies ==
    /\ SetBandsDone
    /\ BandsShapeFits
    /\ ~OccupationsShapeDiffers
    /\ \/ HasBadElement(args.bands)
       \/ args.occupations.given /\ HasBadElement(args.occupations.v)

C10_OnlyFloatOrNone ==
    C10_Applies =>
        /\ RaisedValueError
        /\ result.msg \in {OnlyFloatOrNone("bands"), OnlyFloatOrNone("occupations")}

\* ---------------------------------------------------------------------------
\* C11: labels of set_bands

\* the call reaches the validation of the labels: k-points are set and the
\* bands and occupations pass every check made before it
LabelsReached ==
    /\ SetBandsDone
    /\ kpoints.set
    /\ BandsShapeFits
    /\ ~OccupationsShapeDiffers
    /\ ~HasBadElement(args.bands)
    /\ args.occupations.given => ~HasBadElement(args.occupations.v)

\* the number of band arrays: 1 for a 2-D array, shape[0] for a 3-D one
NumberOfBandArrays == IF Len(args.bands.shape) = 2 THEN 1 ELSE args.bands.shape[1]

\* labels is a single string or a list/tuple of strings, one per band array
LabelsAsRequired ==
    /\ args.labels.kind \in {"str", "list"}
    /\ \A i \in DOMAIN args.labels.items : args.labels.items[i].t \in {"str", "unicode"}
    /\ Len(args.labels.items) = NumberOfBandArrays

\* C11: on a call whose bands and occupations pass the earlier checks,
\* set_bands accepts labels only if they are None or a string / list of strings
\* with one label per band array, raises ValidationError for every other
\* labels value, and stores no labels when labels is None.
C11_Labels ==
    LabelsReached =>
        /\ Accepted => args.labels.kind = "None" \/ LabelsAsRequired
        /\ args.labels.kind # "None" /\ ~LabelsAsRequired =>
               result.kind = "raise" /\ result.exc = "ValidationError"
        /\ args.labels.kind = "None" => Accepted /\ "array_labels" \notin DOMAIN attrs

\* ---------------------------------------------------------------------------
\* C12: round trip of set_bands and get_bands

\* get_bands has answered on a node whose one set_bands call is kept in args
GetBandsDone == pc = "read" /\ args.op = "get_bands"

\* the set_bands call succeeded: only a successful call stores the bands
SetBandsSucceeded == "bands" \in DOMAIN arrays

\* two elements compare equal in Python: numbers by value (1 == 1.0), None
\* with None, a string with the same string; '0.0' is not equal to 0.0
ElemEq(e, f) ==
    \/ e.t \in {"float", "int"} /\ f.t \in {"float", "int"} /\ e.v = f.v
    \/ e.t = f.t /\ e.v = f.v

\* two arrays are equal: same shape, equal elements
ArrayEq(x, y) ==
    /\ x.shape = y.shape
    /\ \A i \in DOMAIN x.data : ElemEq(x.data[i], y.data[i])

\* the label strings of the labels passed to set_bands
LabelStrings == [i \in DOMAIN args.labels.items |-> args.labels.items[i].s]

RaisedAttributeError == result.kind = "raise" /\ result.exc = "AttributeError"

\* C12: after a successful set_bands(b, occupations=o, labels=l), get_bands()
\* returns the bare bands array equal to b, and
\* get_bands(also_occupations=True, also_labels=True) returns the list
\* [bands, occupations, labels] in that order, equal to b, o and the list of
\* label strings; get_bands raises AttributeError when no bands are stored,
\* or when occupations are requested and none were set.
C12_RoundTrip ==
    GetBandsDone =>
        /\ SetBandsSucceeded /\ ~args.also_occupations /\ ~args.also_labels =>
               /\ result.kind = "return"
               /\ ArrayEq(result.value, args.bands)
        /\ (/\ SetBandsSucceeded
            /\ args.also_occupations /\ args.also_labels
            /\ args.occupations.given) =>
               /\ result.kind = "return"
               /\ Len(result.value) = 3
               /\ ArrayEq(result.value[1], args.bands)
               /\ ArrayEq(result.value[2], args.occupations.v)
               /\ result.value[3].given = (args.labels.kind # "None")
               /\ result.value[3].given => result.value[3].v = LabelStrings
        /\ ~SetBandsSucceeded => RaisedAttributeError
        /\ args.also_occupations /\ ~args.occupations.given => RaisedAttributeError

\* ---------------------------------------------------------------------------
\* C13: the order of tearDownClass

\* a step of tearDownClass: the fixture moves on from the tests or from one
\* statement of tearDownClass to the next
TearDownStep == fixture' # fixture /\ fixture \notin {"new", "done"}

\* the step deletes rows of the table
Deletes(table) == db[table] \ db'[table] # {}
DeletesUser == db.user /\ ~db'.user

\* C13: tearDownClass deletes in the order workflows, groups, links, nodes,
\* the configured user, computers: links are all gone before any node is
\* deleted, nodes are all gone before the configured user and the computers
\* are deleted, a missing configured user does not stop the deletion of the
\* computers, and when tearDownClass is over no workflow, group, link, node,
\* configured user or computer remains.
C13_TearDownOrder ==
    [][TearDownStep =>
        /\ Deletes("groups") => db.workflows = {}
        /\ Deletes("links") => db.workflows = {} /\ db.groups = {}
        /\ Deletes("nodes") => db.links = {} /\ db.groups = {}
        /\ DeletesUser \/ Deletes("computers") => db.nodes = {} /\ db.links = {}
        /\ Deletes("computers") => ~db.user
        /\ fixture = "td_user" /\ ~db.user => fixture' = "td_computers" /\ db' = db
        /\ fixture = "td_computers" => db'.computers = {} /\ fixture' = "done"
        /\ fixture' = "done" => db' = EmptyDb]_vars

\* tearDownClass has deleted the workflows, groups, links and nodes, is about
\* to look up a configured user that does not exist, and still has every
\* computer to delete
C13_Witness ==
    /\ fixture = "td_user"
    /\ ~db.user
    /\ db.computers = ComputerNames
    /\ db.workflows = {} /\ db.groups = {} /\ db.links = {} /\ db.nodes = {}

====
